---- MODULE Spec2Model ----
(***************************************************************************)
(* Cube-Cryptography-Sim: the cube state machine (src/src/cube.js), the    *)
(* cipher-feedback engine (src/src/cipher_engine.js) and their callers.    *)
(*                                                                         *)
(* Characters are modelled by their character codes, strings by sequences  *)
(* of character codes.  A cell's quaternion is modelled by the images of   *)
(* its three local axes; every rotation the program applies is a quarter   *)
(* turn about a world axis, so these images are signed unit vectors.       *)
(***************************************************************************)
EXTENDS Integers, Sequences, FiniteSets, TLC

VARIABLES
    cube,       \* [Cubes -> CubeSimulator fields]
    engine,     \* [Cubes -> CubeCipherEngine fields], one engine per cube
    sess,       \* [Sessions -> closure state of one encryptSequence/decryptSequence call]
    calls,      \* number of calls the environment has made on the cubes so far
    codec,      \* the value threaded through toIndex/fromIndex in SpecCodec
    chat,       \* [Cubes -> CubeChat fields], one chat per cube
    conn        \* [Cubes -> packets sent to that peer and not yet handled]

vars == <<cube, engine, sess, calls, codec, chat, conn>>

(***************************************************************************)
(* Bounds of the model.                                                    *)
(***************************************************************************)
MaxLen == 2       \* longest input text of a session
MaxCalls == 2     \* calls of queueMove, initCube and setAutoProcess by the environment
MaxTurns == 2     \* moves queued in SpecMoves, keys pressed in SpecKeys
MaxHops == 2      \* conversions in a row in SpecCodec
MaxScramble == 1    \* moves queued before the pattern of SpecTurns
MaxFree == 2        \* first and last iterations of the shuffle with an arbitrary random value
MaxTable == 5       \* longest table asked of generateStepConstants in SpecFunctions
MaxDepth == 5       \* cipher moves completed one after the other in SpecCipher

Cubes == {1, 2}
Sessions == {1, 2}

(***************************************************************************)
(* Characters.                                                             *)
(***************************************************************************)
NoChar == 0                 \* createFaceMaterial(null, ...): a facelet without label
Unknown == 63               \* "?"
Space == 32
Alphabet == (65..90) \cup (97..122) \cup {Space}

\* "ABCDEFGHIJKLMNOPQRSTUVWXYZabcdefghijklmnopqrstuvwxyz A"
chars == [i \in 1..54 |-> IF i <= 26 THEN 64 + i
                          ELSE IF i <= 52 THEN 70 + i
                          ELSE IF i = 53 THEN Space ELSE 65]

SeedDefault == <<68, 69, 70, 65, 85, 76, 84>>    \* "DEFAULT"
SeedAW == <<65, 87>>                             \* "AW"
Seeds == {SeedDefault, SeedAW}

(***************************************************************************)
(* Math.sin(s) * 10000, fractional part, in millionths (rounded down), for *)
(* the arguments the seeds of the model use.                               *)
(***************************************************************************)
Scale == 1000000

SinTable ==
    152 :> 205237 @@ 153 :> 5807 @@ 154 :> 796627 @@ 155 :> 880172 @@ 156 :> 153811 @@ 157 :> 514571 @@
    158 :> 240965 @@ 159 :> 197317 @@ 160 :> 252583 @@ 161 :> 922144 @@ 162 :> 496492 @@ 163 :> 898241 @@
    164 :> 327780 @@ 165 :> 972794 @@ 166 :> 915637 @@ 167 :> 498131 @@ 168 :> 267112 @@ 169 :> 1323 @@
    170 :> 494554 @@ 171 :> 908679 @@ 172 :> 591401 @@ 173 :> 894670 @@ 174 :> 380257 @@ 175 :> 654048 @@
    176 :> 522360 @@ 177 :> 897877 @@ 178 :> 753358 @@ 179 :> 221672 @@ 180 :> 473642 @@ 181 :> 485998 @@
    182 :> 189340 @@ 183 :> 804082 @@ 184 :> 843832 @@ 185 :> 211800 @@ 186 :> 760624 @@ 187 :> 289766 @@
    188 :> 763309 @@ 189 :> 179536 @@ 190 :> 992786 @@ 191 :> 85484 @@ 192 :> 616423 @@ 193 :> 434253 @@
    194 :> 136707 @@ 195 :> 546679 @@ 196 :> 300555 @@ 197 :> 58429 @@ 198 :> 214083 @@ 199 :> 11639 @@
    200 :> 27027 @@ 201 :> 97492 @@ 202 :> 184068 @@ 203 :> 97001 @@ 204 :> 203593 @@ 240 :> 451549 @@
    242 :> 880924 @@ 245 :> 874367 @@ 249 :> 368065 @@ 254 :> 988980 @@ 260 :> 397038 @@ 267 :> 681772 @@
    275 :> 146740 @@ 517 :> 441260 @@ 518 :> 819937 @@ 519 :> 429929 @@ 520 :> 47206 @@ 521 :> 348266 @@
    522 :> 767042 @@ 523 :> 755532 @@ 524 :> 757972 @@ 525 :> 222694 @@ 526 :> 26482 @@ 527 :> 621285 @@
    528 :> 399997 @@ 529 :> 725475 @@ 530 :> 165538 @@ 531 :> 176951 @@ 532 :> 957610 @@ 533 :> 391169 @@
    534 :> 79016 @@ 535 :> 706755 @@ 536 :> 408251 @@ 537 :> 515986 @@ 538 :> 983243 @@ 539 :> 221022 @@
    540 :> 70956 @@ 541 :> 480068 @@ 542 :> 687571 @@ 543 :> 971507 @@ 544 :> 556568 @@ 545 :> 987229 @@
    546 :> 156816 @@ 547 :> 665391 @@ 548 :> 627975 @@ 549 :> 648723 @@ 550 :> 159225 @@ 551 :> 596214 @@
    552 :> 124114 @@ 553 :> 86403 @@ 554 :> 130525 @@ 555 :> 826108 @@ 556 :> 601641 @@ 557 :> 637677 @@
    558 :> 11242 @@ 559 :> 91629 @@ 560 :> 185852 @@ 561 :> 351572 @@ 562 :> 766604 @@ 563 :> 81620 @@
    564 :> 358904 @@ 565 :> 81257 @@ 566 :> 741133 @@ 567 :> 488258 @@ 568 :> 462319 @@ 569 :> 724629 @@
    2146 :> 234798 @@ 2148 :> 321944 @@ 2151 :> 565591 @@ 2155 :> 275270 @@ 2160 :> 962909 @@ 2166 :> 980184 @@
    2173 :> 256721 @@ 2181 :> 633954

random(s) == SinTable[s]

RECURSIVE SumCodes(_, _)
SumCodes(seed, i) == IF i > Len(seed) THEN 0 ELSE seed[i] + SumCodes(seed, i + 1)

Swap(pool, a, b) == [pool EXCEPT ![a] = pool[b], ![b] = pool[a]]

\* the shuffle loop of generateCharSet; i is the 0-based index of the code
RECURSIVE Shuffle(_, _, _)
Shuffle(pool, i, seedNum) ==
    IF i <= 0 THEN pool
    ELSE LET j == (random(seedNum) * (i + 1)) \div Scale
         IN  Shuffle(Swap(pool, i + 1, j + 1), i - 1, seedNum + 1)

generateCharSet(seed) ==
    LET pool == Shuffle(chars, Len(chars) - 1, SumCodes(seed, 1))
    IN  [i \in 1..54 |-> pool[i]]

\* generateCharSet is evaluated once per seed
CharSets == [seed \in Seeds |-> generateCharSet(seed)]

RECURSIVE WeightedCodes(_, _)
WeightedCodes(seed, i) ==
    IF i > Len(seed) THEN 0 ELSE seed[i] * i + WeightedCodes(seed, i + 1)

\* mutant: the constants are counted from 1
RECURSIVE StepLoopFromOne(_, _, _)
StepLoopFromOne(s, i, length) ==
    IF i >= length THEN <<>>
    ELSE LET s2 == s + i + 1
         IN  <<(random(s2) * 53) \div Scale + 1>> \o StepLoopFromOne(s2, i + 1, length)

RECURSIVE StepLoop(_, _, _)
StepLoop(s, i, length) ==
    IF i >= length THEN <<>>
    ELSE LET s2 == s + i + 1
         IN  <<(random(s2) * 53) \div Scale>> \o StepLoop(s2, i + 1, length)

generateStepConstants(seedKey, length) == StepLoop(WeightedCodes(seedKey, 1), 0, length)

(***************************************************************************)
(* Vectors and quarter turns.                                              *)
(***************************************************************************)
Identity == << <<1, 0, 0>>, <<0, 1, 0>>, <<0, 0, 1>> >>

\* local face normals, in the material order Right, Left, Top, Bottom, Front, Back
normals == << <<1, 0, 0>>, <<-1, 0, 0>>, <<0, 1, 0>>, <<0, -1, 0>>, <<0, 0, 1>>, <<0, 0, -1>> >>

AxisIndex(axis) == CASE axis = "x" -> 1 [] axis = "y" -> 2 [] axis = "z" -> 3 [] OTHER -> 0

\* rotation by sgn * PI/2 about a world axis (THREE's Euler rotation about one axis)
Rotate(axis, sgn, v) ==
    CASE axis = "x" -> <<v[1], -sgn * v[3], sgn * v[2]>>
      [] axis = "y" -> <<sgn * v[3], v[2], -sgn * v[1]>>
      [] axis = "z" -> <<-sgn * v[2], sgn * v[1], v[3]>>
      [] OTHER -> v

applyQuaternion(n, q) ==
    [d \in 1..3 |-> n[1] * q[1][d] + n[2] * q[2][d] + n[3] * q[3][d]]

(***************************************************************************)
(* initCube.                                                               *)
(***************************************************************************)
CubieIds == 0..26

HomeOf(n) == <<(n \div 9) - 1, ((n \div 3) % 3) - 1, (n % 3) - 1>>

\* mutant: the Top and Bottom conditions are exchanged
ExposedTopBottomSwapped(p, f) ==
    CASE f = 1 -> p[1] = 1  [] f = 2 -> p[1] = -1
      [] f = 3 -> p[2] = -1 [] f = 4 -> p[2] = 1
      [] f = 5 -> p[3] = 1  [] f = 6 -> p[3] = -1

\* whether face f (1..6: R, L, U, D, F, B) of a cell at p gets a labelled material
Exposed(p, f) ==
    CASE f = 1 -> p[1] = 1  [] f = 2 -> p[1] = -1
      [] f = 3 -> p[2] = 1  [] f = 4 -> p[2] = -1
      [] f = 5 -> p[3] = 1  [] f = 6 -> p[3] = -1

ExposedBefore(p, f) == Cardinality({g \in 1..6 : g < f /\ Exposed(p, g)})

\* faceIndexCounter when the loop reaches cell n
RECURSIVE faceIndexCounter(_)
faceIndexCounter(n) ==
    IF n = 0 THEN 0 ELSE faceIndexCounter(n - 1) + ExposedBefore(HomeOf(n - 1), 7)

initCube(seedKey) ==
    LET charSet == CharSets[seedKey]
    IN  [n \in CubieIds |->
            LET p == HomeOf(n)
                k == faceIndexCounter(n)
            IN  [position |-> p,
                 quaternion |-> Identity,
                 material |-> [f \in 1..6 |->
                     IF Exposed(p, f) THEN charSet[k + ExposedBefore(p, f) + 1]
                     ELSE NoChar]]]

InitCubies == [seed \in Seeds |-> initCube(seed)]

(***************************************************************************)
(* Moves.  A move string is kept as a string; moveStr[0] and               *)
(* moveStr.includes("'") are read off it by the two tables below.          *)
(***************************************************************************)
Generators == {"U", "U'", "D", "D'", "L", "L'", "R", "R'", "F", "F'", "B", "B'"}

movesList == <<"U", "U'", "R", "R'", "F", "F'">>

moveFace(moveStr) ==
    CASE moveStr \in {"U", "U'"} -> "U" [] moveStr \in {"D", "D'"} -> "D"
      [] moveStr \in {"L", "L'"} -> "L" [] moveStr \in {"R", "R'"} -> "R"
      [] moveStr \in {"F", "F'"} -> "F" [] moveStr \in {"B", "B'"} -> "B"
      [] OTHER -> "?"

isPrime(moveStr) == moveStr \in {"U'", "D'", "L'", "R'", "F'", "B'"}

moveAxis(face) ==
    CASE face \in {"U", "D"} -> "y" [] face \in {"L", "R"} -> "x"
      [] face \in {"F", "B"} -> "z" [] OTHER -> ""

layerVal(face) ==
    CASE face \in {"U", "R", "F"} -> 1 [] face \in {"D", "L", "B"} -> -1 [] OTHER -> 0

\* mutant: isPrime is not looked at
moveAngleUnprimed(face, prime) ==
    CASE face \in {"U", "R", "F"} -> -1
      [] face \in {"D", "L", "B"} -> 1
      [] OTHER -> -1

\* the angle of animateMove in quarter turns: -1 is -PI/2, 1 is PI/2
moveAngle(face, prime) ==
    CASE face \in {"U", "R", "F"} -> (IF prime THEN 1 ELSE -1)
      [] face \in {"D", "L", "B"} -> (IF prime THEN -1 ELSE 1)
      [] OTHER -> -1

\* mutant: the layer is chosen by the cells' initial coordinates (userData)
activeCubiesHome(cubies, moveStr) ==
    LET axis == moveAxis(moveFace(moveStr))
    IN  IF axis = "" THEN {}
        ELSE {n \in CubieIds :
                HomeOf(n)[AxisIndex(axis)] = layerVal(moveFace(moveStr))}

\* the cells animateMove puts under the pivot
activeCubies(cubies, moveStr) ==
    LET axis == moveAxis(moveFace(moveStr))
    IN  IF axis = "" THEN {}
        ELSE {n \in CubieIds :
                cubies[n].position[AxisIndex(axis)] = layerVal(moveFace(moveStr))}

\* mutant: the turn also carries the materials of a cell to its other slots
animateFinishRelabel(cubies, moveStr, active) ==
    LET face == moveFace(moveStr)
        axis == moveAxis(face)
        angle == moveAngle(face, isPrime(moveStr))
    IN  [n \in CubieIds |->
            IF n \in active
            THEN [cubies[n] EXCEPT
                    !.position = Rotate(axis, angle, @),
                    !.quaternion = [k \in 1..3 |-> Rotate(axis, angle, @[k])],
                    !.material = [f \in 1..6 |-> @[(f % 6) + 1]]]
            ELSE cubies[n]]

\* mutant: the turn moves the cells without turning them
animateFinishNoTurn(cubies, moveStr, active) ==
    LET face == moveFace(moveStr)
        axis == moveAxis(face)
        angle == moveAngle(face, isPrime(moveStr))
    IN  [n \in CubieIds |->
            IF n \in active
            THEN [cubies[n] EXCEPT !.position = Rotate(axis, angle, @)]
            ELSE cubies[n]]

\* the finish branch of tick: the pivot's quarter turn is applied to the active
\* cells; Math.round leaves the rotated integer positions as they are
animateFinish(cubies, moveStr, active) ==
    LET face == moveFace(moveStr)
        axis == moveAxis(face)
        angle == moveAngle(face, isPrime(moveStr))
    IN  [n \in CubieIds |->
            IF n \in active
            THEN [cubies[n] EXCEPT
                    !.position = Rotate(axis, angle, @),
                    !.quaternion = [k \in 1..3 |-> Rotate(axis, angle, @[k])]]
            ELSE cubies[n]]

(***************************************************************************)
(* getSensorValue.                                                         *)
(***************************************************************************)
SensorTarget == <<1, 1, 1>>

Least(S) == CHOOSE x \in S : \A y \in S : x <= y
Greatest(S) == CHOOSE x \in S : \A y \in S : x >= y

\* the cell cubies.find returns, or -1
sensorCubie(cubies) ==
    LET at == {n \in CubieIds : cubies[n].position = SensorTarget}
    IN  IF at = {} THEN -1 ELSE Least(at)

\* the material index the forEach loop leaves in bestIndex (1..6), with bestDot
sensorBest(q) ==
    LET dot == [i \in 1..6 |-> applyQuaternion(normals[i], q)[2]]
        bestDot == Greatest({dot[i] : i \in 1..6} \cup {-1})
        better == {i \in 1..6 : dot[i] = bestDot /\ dot[i] > -1}
    IN  [bestDot |-> bestDot, bestIndex |-> IF better = {} THEN 0 ELSE Least(better)]

getSensorValue(cubies) ==
    LET n == sensorCubie(cubies)
    IN  IF n = -1 THEN Unknown
        ELSE LET best == sensorBest(cubies[n].quaternion)
             IN  IF 10 * best.bestDot < 9 THEN Unknown
                 ELSE IF cubies[n].material[best.bestIndex] = NoChar THEN Unknown
                 ELSE cubies[n].material[best.bestIndex]

(***************************************************************************)
(* CubeCipherEngine helpers.                                               *)
(***************************************************************************)
\* mutant: the fallback index is the last one
toIndexFallbackLast(c) ==
    IF c = Space THEN 52
    ELSE IF c >= 65 /\ c <= 90 THEN c - 65
    ELSE IF c >= 97 /\ c <= 122 THEN c - 97 + 26
    ELSE 52

toIndex(c) ==
    IF c = Space THEN 52
    ELSE IF c >= 65 /\ c <= 90 THEN c - 65
    ELSE IF c >= 97 /\ c <= 122 THEN c - 97 + 26
    ELSE 0

\* mutant: index 52 is not mapped to the space
fromIndexNoSpace(i) ==
    IF i <= 25 THEN i + 65
    ELSE i - 26 + 97

fromIndex(i) ==
    IF i = 52 THEN Space
    ELSE IF i <= 25 THEN i + 65
    ELSE i - 26 + 97

\* mutant: the alphabet index of the character is used, not its code
getCharMoveByIndex(char) ==
    IF char = <<>> THEN "U" ELSE movesList[(toIndex(char[1]) % 6) + 1]

\* char is a string of length 0 or 1
getCharMove(char) ==
    IF char = <<>> THEN "U" ELSE movesList[(char[1] % 6) + 1]

\* mutant: an empty table gives the constant 1
getStepConstantOne(stepConstants, i) ==
    IF Len(stepConstants) = 0 THEN 1
    ELSE stepConstants[(i % Len(stepConstants)) + 1]

getStepConstant(stepConstants, i) ==
    IF Len(stepConstants) = 0 THEN 0
    ELSE stepConstants[(i % Len(stepConstants)) + 1]

\* the remainder operator of the language: the sign follows the dividend
jsRem(a, n) == IF a >= 0 THEN a % n ELSE -((-a) % n)

\* mutant: a negative remainder is left as it is
whileNegativeSkipped(pVal) == pVal

RECURSIVE whileNegative(_)
whileNegative(pVal) == IF pVal < 0 THEN whileNegative(pVal + 53) ELSE pVal

\* mutant: the round constant is left out of the sum
encryptCharNoRC(p, k, rc) == fromIndex((p + k) % 53)

encryptChar(p, k, rc) == fromIndex((p + k + rc) % 53)

\* mutant: the negative remainder is not brought back into 0..52
decryptCharNoWrap(c, k, rc) == fromIndex(jsRem(c - k - rc, 53))

decryptChar(c, k, rc) == fromIndex(whileNegative(jsRem(c - k - rc, 53)))

\* mutant: the decrypted character drives the next move
decryptFeedbackPlain(cChar, pChar) == <<pChar>>

\* lastCipherChar after a decrypt step: the input ciphertext character
decryptFeedback(cChar, pChar) == <<cChar>>

\* plaintext.replace(/[^A-Za-z ]/g, '')
InAlphabet(c) == c \in Alphabet

\* mutant: nothing is filtered out
cleanInputKeepAll(text) == text

cleanInput(text) == SelectSeq(text, InAlphabet)

(***************************************************************************)
(* The cube's move queue and the sessions of the engine.  The operators    *)
(* below take and return a world w = [cube, engine, sess], so that a       *)
(* handler's nested calls compose in program order.                        *)
(***************************************************************************)
World == [cube |-> cube, engine |-> engine, sess |-> sess]

NoHook == [kind |-> "none", s |-> 0, pChar |-> 0]

NoSession == [cube |-> 0, kind |-> "none", raw |-> <<>>, data |-> <<>>, iv |-> <<>>, last |-> <<>>,
              out |-> <<>>, index |-> 0, delivered |-> <<>>,
              start |-> <<>>, queued |-> <<>>, trace |-> <<>>]

Remove(seq, k) == [i \in 1..(Len(seq) - 1) |-> IF i < k THEN seq[i] ELSE seq[i + 1]]

\* animateMove up to its first requestAnimationFrame: the layer is chosen and
\* put under the pivot; the finish branch runs in a later frame
animateMove(w, c, moveStr) ==
    [w EXCEPT !.cube[c].inflight =
        Append(@, [move |-> moveStr,
                   active |-> activeCubies(w.cube[c].cubies, moveStr),
                   stale |-> FALSE])]

processQueue(w, c) ==
    IF w.cube[c].animationQueue = <<>>
    THEN [w EXCEPT !.cube[c].isAnimating = FALSE]
    ELSE animateMove([w EXCEPT !.cube[c].isAnimating = TRUE,
                               !.cube[c].animationQueue = Tail(@)],
                     c, Head(w.cube[c].animationQueue))

\* mutant: queueMove starts the queue without looking at isAnimating
queueMoveUnguarded(w, c, move) ==
    LET w1 == [w EXCEPT !.cube[c].animationQueue = Append(@, move)]
    IN  IF w1.cube[c].autoProcess THEN processQueue(w1, c) ELSE w1

queueMove(w, c, move) ==
    LET w1 == [w EXCEPT !.cube[c].animationQueue = Append(@, move)]
    IN  IF w1.cube[c].autoProcess /\ ~w1.cube[c].isAnimating
        THEN processQueue(w1, c)
        ELSE w1

step(w, c) ==
    IF ~w.cube[c].isAnimating /\ Len(w.cube[c].animationQueue) > 0
    THEN processQueue(w, c)
    ELSE w

setAutoProcess(w, c, val) ==
    LET w1 == [w EXCEPT !.cube[c].autoProcess = val]
    IN  IF val /\ ~w1.cube[c].isAnimating THEN processQueue(w1, c) ELSE w1

\* mutant: the hook is installed before the end of the input is looked for
processNextHookFirst(w, s) ==
    LET ss == w.sess[s]
        w1 == [w EXCEPT !.cube[ss.cube].onMoveComplete =
                            [kind |-> ss.kind, s |-> s, pChar |-> NoChar]]
    IN  IF ss.index >= Len(ss.data)
        THEN [w1 EXCEPT !.sess[s].delivered = Append(@, ss.out)]
        ELSE LET move == getCharMove(ss.last)
             IN  queueMove([w EXCEPT
                               !.cube[ss.cube].onMoveComplete =
                                   [kind |-> ss.kind, s |-> s, pChar |-> ss.data[ss.index + 1]],
                               !.sess[s].queued = Append(@, move)],
                           ss.cube, move)

\* processNext of encryptSequence and of decryptSequence (the two differ only in
\* the hook they install, which the hook's kind tells apart)
processNext(w, s) ==
    LET ss == w.sess[s]
    IN  IF ss.index >= Len(ss.data)
        THEN [w EXCEPT !.sess[s].delivered = Append(@, ss.out)]
        ELSE LET move == getCharMove(ss.last)
             IN  queueMove([w EXCEPT
                               !.cube[ss.cube].onMoveComplete =
                                   [kind |-> ss.kind, s |-> s, pChar |-> ss.data[ss.index + 1]],
                               !.sess[s].queued = Append(@, move)],
                           ss.cube, move)

\* the hook encryptSequence installs for one step
encryptHook(w, s, pChar, move) ==
    LET ss == w.sess[s]
        sensorVal == getSensorValue(w.cube[ss.cube].cubies)
        rc == getStepConstant(w.engine[ss.cube].stepConstants, ss.index)
        cChar == encryptChar(toIndex(pChar), toIndex(sensorVal), rc)
    IN  processNext([w EXCEPT !.sess[s] = [ss EXCEPT
                        !.out = Append(@, cChar),
                        !.last = <<cChar>>,
                        !.index = @ + 1,
                        !.trace = Append(@, [move |-> move, k |-> sensorVal,
                                             cubies |-> w.cube[ss.cube].cubies])]],
                    s)

\* the hook decryptSequence installs for one step
decryptHook(w, s, cChar, move) ==
    LET ss == w.sess[s]
        sensorVal == getSensorValue(w.cube[ss.cube].cubies)
        rc == getStepConstant(w.engine[ss.cube].stepConstants, ss.index)
        pChar == decryptChar(toIndex(cChar), toIndex(sensorVal), rc)
    IN  processNext([w EXCEPT !.sess[s] = [ss EXCEPT
                        !.out = Append(@, pChar),
                        !.last = decryptFeedback(cChar, pChar),
                        !.index = @ + 1,
                        !.trace = Append(@, [move |-> move, k |-> sensorVal,
                                             cubies |-> w.cube[ss.cube].cubies])]],
                    s)

\* mutant: the callback starts the next queued move whatever autoProcess is
moveCallbackAlwaysRestart(w, c, move) ==
    LET h == w.cube[c].onMoveComplete
        w1 == CASE h.kind = "enc" -> encryptHook(w, h.s, h.pChar, move)
                [] h.kind = "dec" -> decryptHook(w, h.s, h.pChar, move)
                [] OTHER -> w
    IN  processQueue(w1, c)

\* mutant: the callback never starts the next queued move
moveCallbackNoRestart(w, c, move) ==
    LET h == w.cube[c].onMoveComplete
        w1 == CASE h.kind = "enc" -> encryptHook(w, h.s, h.pChar, move)
                [] h.kind = "dec" -> decryptHook(w, h.s, h.pChar, move)
                [] OTHER -> w
    IN  [w1 EXCEPT !.cube[c].isAnimating = FALSE]

\* the callback processQueue hands to animateMove
moveCallback(w, c, move) ==
    LET h == w.cube[c].onMoveComplete
        w1 == CASE h.kind = "enc" -> encryptHook(w, h.s, h.pChar, move)
                [] h.kind = "dec" -> decryptHook(w, h.s, h.pChar, move)
                [] OTHER -> w
    IN  IF w1.cube[c].autoProcess
        THEN processQueue(w1, c)
        ELSE [w1 EXCEPT !.cube[c].isAnimating = FALSE]

\* mutant: the callback runs before the turn is applied to the cells
animateMoveDoneEarly(w, c, k) ==
    LET a == w.cube[c].inflight[k]
        w1 == moveCallback([w EXCEPT !.cube[c].inflight = Remove(@, k)], c, a.move)
    IN  [w1 EXCEPT !.cube[c].cubies =
            IF a.stale THEN @ ELSE animateFinish(@, a.move, a.active)]

\* the finish branch of the k-th animation in flight, then its callback.  The
\* cells of an animation started before the last initCube are no longer in
\* cube.cubies.
animateMoveDone(w, c, k) ==
    LET a == w.cube[c].inflight[k]
    IN  moveCallback([w EXCEPT
                        !.cube[c].cubies =
                            IF a.stale THEN @ ELSE animateFinish(@, a.move, a.active),
                        !.cube[c].inflight = Remove(@, k)],
                     c, a.move)

encryptSequence(w, s, c, plaintext, ivChar) ==
    processNext([w EXCEPT !.sess[s] =
                    [NoSession EXCEPT !.cube = c, !.kind = "enc", !.iv = ivChar,
                                      !.last = ivChar, !.raw = plaintext,
                                      !.data = cleanInput(plaintext),
                                      !.start = w.cube[c].cubies]],
                s)

decryptSequence(w, s, c, ciphertext, ivChar) ==
    processNext([w EXCEPT !.sess[s] =
                    [NoSession EXCEPT !.cube = c, !.kind = "dec", !.iv = ivChar,
                                      !.last = ivChar, !.raw = ciphertext,
                                      !.data = cleanInput(ciphertext),
                                      !.start = w.cube[c].cubies]],
                s)

\* initCube as a method: the cells are rebuilt; the queue, isAnimating and the
\* hook are left as they are, and animations in flight keep the old cells.
\* seedKey records the argument of the last call.
rebuildCube(w, c, seedKey) ==
    [w EXCEPT !.cube[c].cubies = InitCubies[seedKey],
              !.cube[c].seedKey = seedKey,
              !.cube[c].inflight = [i \in 1..Len(@) |-> [@[i] EXCEPT !.stale = TRUE]]]

(***************************************************************************)
(* Inputs.                                                                 *)
(***************************************************************************)
RECURSIVE SeqsUpTo(_, _)
SeqsUpTo(S, n) ==
    IF n = 0 THEN {<<>>}
    ELSE LET shorter == SeqsUpTo(S, n - 1)
         IN  shorter \cup {Append(t, x) : t \in {u \in shorter : Len(u) = n - 1}, x \in S}

TextChars == {72, 101, Space, 49}    \* "H", "e", " " and the foreign "1"
Texts == SeqsUpTo(TextChars, MaxLen)
IVs == {<<65>>, <<66>>}              \* "A" (the callers' IV) and "B"
StepTables == {<<>>} \cup {generateStepConstants(seed, 2) : seed \in Seeds}

\* the inputs of the sessions that share cube 1 in Spec
SharedTexts == {<<>>, <<72, 101>>}
SharedIVs == {<<65>>}
KeyMoves == {"U", "R'"}              \* keys the lab's keydown handler accepts

(***************************************************************************)
(* Initial state: a CubeSimulator and a CubeCipherEngine after their       *)
(* constructors.                                                           *)
(***************************************************************************)
NewCube(seedKey) ==
    [cubies |-> InitCubies[seedKey], seedKey |-> seedKey, animationQueue |-> <<>>, isAnimating |-> FALSE,
     autoProcess |-> TRUE, onMoveComplete |-> NoHook, inflight |-> <<>>]

NoCodec == [kind |-> "none", from |-> "none", val |-> 0, orig |-> 0, hops |-> 0]

\* the pages without a chat: no CubeChat is constructed and no connection exists
NoChat == [c \in Cubes |-> [connected |-> FALSE]]
NoConn == [c \in Cubes |-> <<>>]

Init ==
    /\ cube = [c \in Cubes |-> NewCube(SeedDefault)]
    /\ engine = [c \in Cubes |-> [stepConstants |-> <<>>]]
    /\ sess = [s \in Sessions |-> NoSession]
    /\ calls = 0
    /\ chat = NoChat
    /\ conn = NoConn
    /\ codec = NoCodec

Apply(w) ==
    /\ cube' = w.cube
    /\ engine' = w.engine
    /\ sess' = w.sess

FreeSessions == {s \in Sessions : sess[s].kind = "none"}

(***************************************************************************)
(* Actions.                                                                *)
(***************************************************************************)
Called ==
    /\ calls < MaxCalls
    /\ calls' = calls + 1
    /\ UNCHANGED <<codec, chat, conn>>

InitCube(c) ==
    \E seedKey \in Seeds :
        /\ Apply(rebuildCube(World, c, seedKey))
        /\ Called

QueueMove(c, moves) ==
    \E move \in moves :
        /\ Apply(queueMove(World, c, move))
        /\ Called

Step(c) ==
    /\ ~cube[c].isAnimating /\ Len(cube[c].animationQueue) > 0
    /\ Apply(step(World, c))
    /\ UNCHANGED <<calls, codec, chat, conn>>

SetAutoProcess(c) ==
    \E val \in BOOLEAN :
        /\ Apply(setAutoProcess(World, c, val))
        /\ Called

AnimationDone(c) ==
    \E k \in 1..Len(cube[c].inflight) :
        /\ Apply(animateMoveDone(World, c, k))
        /\ UNCHANGED <<calls, codec, chat, conn>>

Encrypt(c, texts, ivs) ==
    \E plaintext \in texts, ivChar \in ivs :
        /\ FreeSessions # {}
        /\ Apply(encryptSequence(World, Least(FreeSessions), c, plaintext, ivChar))
        /\ UNCHANGED <<calls, codec, chat, conn>>

Decrypt(c, texts, ivs) ==
    \E ciphertext \in texts, ivChar \in ivs :
        /\ FreeSessions # {}
        /\ Apply(decryptSequence(World, Least(FreeSessions), c, ciphertext, ivChar))
        /\ UNCHANGED <<calls, codec, chat, conn>>

(***************************************************************************)
(* Spec: one cube shared by the engine's sessions, the keyboard and the    *)
(* step-mode controls, in every interleaving.                              *)
(***************************************************************************)
Next ==
    \/ InitCube(1)
    \/ QueueMove(1, KeyMoves)
    \/ Step(1)
    \/ SetAutoProcess(1)
    \/ AnimationDone(1)
    \/ Encrypt(1, SharedTexts, SharedIVs)
    \/ Decrypt(1, SharedTexts, SharedIVs)

Spec == Init /\ [][Next]_vars

(***************************************************************************)
(* SpecPair: a sender encrypts on cube 1, a receiver decrypts the          *)
(* ciphertext on cube 2.  Both cubes are initialised from the same seed    *)
(* and both engines hold the same table; each session is alone on its      *)
(* cube.  Step mode may be switched on either cube.                        *)
(***************************************************************************)
InitPair ==
    \E seedKey \in Seeds, table \in StepTables :
        /\ cube = [c \in Cubes |-> NewCube(seedKey)]
        /\ engine = [c \in Cubes |-> [stepConstants |-> table]]
        /\ sess = [s \in Sessions |-> NoSession]
        /\ calls = 0
        /\ chat = NoChat
        /\ conn = NoConn
        /\ codec = NoCodec

PairEncrypt ==
    /\ sess[1].kind = "none"
    /\ Encrypt(1, Texts, IVs)

PairDecrypt ==
    /\ sess[1].delivered # <<>>
    /\ sess[2].kind = "none"
    /\ Decrypt(2, {sess[1].delivered[1]}, {sess[1].iv})

PairStep == \E c \in Cubes : Step(c)
PairSetAutoProcess == \E c \in Cubes : SetAutoProcess(c)
PairAnimationDone == \E c \in Cubes : AnimationDone(c)

NextPair ==
    \/ PairEncrypt
    \/ PairDecrypt
    \/ PairStep
    \/ PairSetAutoProcess
    \/ PairAnimationDone

SpecPair == InitPair /\ [][NextPair]_vars

(***************************************************************************)
(* SpecMoves: one cube, keyed from any seed, turned by any of the twelve   *)
(* generators; moves may be queued while one is animating and the cube may *)
(* be keyed again at any time.                                             *)
(***************************************************************************)
InitMoves ==
    \E seedKey \in Seeds :
        /\ cube = [c \in Cubes |-> NewCube(seedKey)]
        /\ engine = [c \in Cubes |-> [stepConstants |-> <<>>]]
        /\ sess = [s \in Sessions |-> NoSession]
        /\ calls = 0
        /\ chat = NoChat
        /\ conn = NoConn
        /\ codec = NoCodec

Turn ==
    \E move \in Generators :
        /\ calls < MaxTurns
        /\ calls' = calls + 1
        /\ Apply(queueMove(World, 1, move))
        /\ UNCHANGED <<codec, chat, conn>>

NextMoves ==
    \/ Turn
    \/ AnimationDone(1)
    \/ InitCube(1)

SpecMoves == InitMoves /\ [][NextMoves]_vars

(***************************************************************************)
(* SpecCodec: toIndex and fromIndex applied in turn to a character or an   *)
(* index.                                                                  *)
(***************************************************************************)
CodecChars == 32..126        \* the printable characters

InitCodec ==
    /\ cube = [c \in Cubes |-> NewCube(SeedDefault)]
    /\ engine = [c \in Cubes |-> [stepConstants |-> <<>>]]
    /\ sess = [s \in Sessions |-> NoSession]
    /\ calls = 0
    /\ chat = NoChat
    /\ conn = NoConn
    /\ codec \in [kind : {"char"}, from : {"char"}, val : CodecChars, orig : CodecChars, hops : {0}]
                 \cup [kind : {"index"}, from : {"index"}, val : 0..52, orig : 0..52, hops : {0}]
    /\ codec.val = codec.orig

CodecToIndex ==
    /\ codec.kind = "char"
    /\ codec.hops < MaxHops
    /\ codec' = [codec EXCEPT !.kind = "index", !.val = toIndex(@), !.hops = @ + 1]
    /\ UNCHANGED <<cube, engine, sess, calls, chat, conn>>

CodecFromIndex ==
    /\ codec.kind = "index"
    /\ codec.hops < MaxHops
    /\ codec' = [codec EXCEPT !.kind = "char", !.val = fromIndex(@), !.hops = @ + 1]
    /\ UNCHANGED <<cube, engine, sess, calls, chat, conn>>

NextCodec == CodecToIndex \/ CodecFromIndex

SpecCodec == InitCodec /\ [][NextCodec]_vars

(***************************************************************************)
(* SpecSolo: one cube with auto-processing on, keyed from any seed, with   *)
(* any table.  Sessions run one after the other: a session is started      *)
(* only when every earlier one has delivered, and nothing else queues      *)
(* moves or keys the cube.                                                 *)
(***************************************************************************)
SoloTexts == SeqsUpTo({72, 49}, MaxLen)     \* over "H" and the foreign "1"

InitSolo ==
    \E seedKey \in Seeds, table \in StepTables :
        /\ cube = [c \in Cubes |-> NewCube(seedKey)]
        /\ engine = [c \in Cubes |-> [stepConstants |-> table]]
        /\ sess = [s \in Sessions |-> NoSession]
        /\ calls = 0
        /\ chat = NoChat
        /\ conn = NoConn
        /\ codec = NoCodec

Running == {s \in Sessions : sess[s].kind # "none" /\ sess[s].delivered = <<>>}

SoloEncrypt ==
    /\ Running = {}
    /\ Encrypt(1, SoloTexts, SharedIVs)

SoloDecrypt ==
    /\ Running = {}
    /\ Decrypt(1, SoloTexts, SharedIVs)

NextSolo ==
    \/ SoloEncrypt
    \/ SoloDecrypt
    \/ AnimationDone(1)

SpecSolo == InitSolo /\ [][NextSolo]_vars

(***************************************************************************)
(* SpecLive: SpecSolo where every animation that was started finishes:     *)
(* requestAnimationFrame keeps calling tick until progress reaches 1.      *)
(***************************************************************************)
AnimationInFlight == cube[1].inflight # <<>>

SpecLive == SpecSolo /\ ([]<>(~AnimationInFlight) \/ []<><<AnimationDone(1)>>_vars)

(***************************************************************************)
(* SpecKeys: the lab page's keyboard.  Any of the six face keys is pressed *)
(* outside a text field, with or without shift, while the cube turns.      *)
(***************************************************************************)
FaceKeys == {"U", "D", "L", "R", "F", "B"}

\* key + "'"
WithPrime == [key \in FaceKeys |->
                 CASE key = "U" -> "U'" [] key = "D" -> "D'" [] key = "L" -> "L'"
                   [] key = "R" -> "R'" [] key = "F" -> "F'" [] key = "B" -> "B'"]

includes(list, x) == \E i \in 1..Len(list) : list[i] = x

\* the keydown handler, for e.key.toUpperCase() = key; "" stands for move = null
keydownMove(key, shiftKey) ==
    LET move == IF includes(movesList, key) THEN key ELSE ""
    IN  IF shiftKey /\ includes(movesList, WithPrime[key]) THEN WithPrime[key] ELSE move

keydown(w, c, key, shiftKey) ==
    LET move == keydownMove(key, shiftKey)
    IN  IF move # "" THEN queueMove(w, c, move) ELSE w

KeyDown ==
    \E key \in FaceKeys, shiftKey \in BOOLEAN :
        /\ calls < MaxTurns
        /\ calls' = calls + 1
        /\ Apply(keydown(World, 1, key, shiftKey))
        /\ UNCHANGED <<codec, chat, conn>>

NextKeys ==
    \/ KeyDown
    \/ AnimationDone(1)

SpecKeys == InitMoves /\ [][NextKeys]_vars

(***************************************************************************)
(* SpecFunctions: the engine's functions applied to their arguments:       *)
(* getCharMove to a driving character (or to none), the decrypt step's     *)
(* arithmetic to C, K and RC, generateStepConstants to a seed and a        *)
(* length.                                                                 *)
(***************************************************************************)
DrivingChars == {<<>>} \cup {<<c>> : c \in CodecChars}
RoundConstants == {0, 1, 52}
Indices == 0..52

InitFunctions ==
    /\ cube = [c \in Cubes |-> NewCube(SeedDefault)]
    /\ engine = [c \in Cubes |-> [stepConstants |-> <<>>]]
    /\ sess = [s \in Sessions |-> NoSession]
    /\ calls = 0
    /\ chat = NoChat
    /\ conn = NoConn
    /\ \/ \E char \in DrivingChars :
             codec = [NoCodec EXCEPT !.kind = "char", !.orig = char]
       \/ \E c \in Indices, k \in Indices, rc \in RoundConstants :
             codec = [NoCodec EXCEPT !.kind = "ckrc", !.orig = <<c, k, rc>>]
       \/ \E seedKey \in Seeds, length \in 1..MaxTable :
             codec = [NoCodec EXCEPT !.kind = "seed", !.orig = <<seedKey, length>>]

ApplyGetCharMove ==
    /\ codec.kind = "char"
    /\ codec' = [codec EXCEPT !.kind = "move", !.val = getCharMove(codec.orig)]
    /\ UNCHANGED <<cube, engine, sess, calls, chat, conn>>

\* let pVal = (c - k - rc) % 53; while (pVal < 0) pVal += 53
ApplyDecryptStep ==
    /\ codec.kind = "ckrc"
    /\ codec' = [codec EXCEPT
                    !.kind = "pVal",
                    !.val = whileNegative(jsRem(codec.orig[1] - codec.orig[2] - codec.orig[3], 53))]
    /\ UNCHANGED <<cube, engine, sess, calls, chat, conn>>

ApplyGenerateStepConstants ==
    /\ codec.kind = "seed"
    /\ codec' = [codec EXCEPT !.kind = "table",
                              !.val = generateStepConstants(codec.orig[1], codec.orig[2])]
    /\ UNCHANGED <<cube, engine, sess, calls, chat, conn>>

NextFunctions ==
    \/ ApplyGetCharMove
    \/ ApplyDecryptStep
    \/ ApplyGenerateStepConstants

SpecFunctions == InitFunctions /\ [][NextFunctions]_vars

(***************************************************************************)
(* SpecShuffle: the shuffle loop of generateCharSet, one iteration per     *)
(* step.  random() returns the value the seed gives, or, in the first and  *)
(* in the last MaxFree iterations, any of RandomValues.  codec.val is      *)
(* pool; codec.orig holds i, seedNum and the j of the last iteration.      *)
(***************************************************************************)
RandomValues == {0, 500000, 999999}      \* 0, 0.5 and 0.999999, in millionths

InitShuffle ==
    /\ cube = [c \in Cubes |-> NewCube(SeedDefault)]
    /\ engine = [c \in Cubes |-> [stepConstants |-> <<>>]]
    /\ sess = [s \in Sessions |-> NoSession]
    /\ calls = 0
    /\ chat = NoChat
    /\ conn = NoConn
    /\ \E seed \in Seeds :
           codec = [kind |-> "shuffle", from |-> seed, val |-> chars, hops |-> 0,
                    orig |-> [i |-> Len(chars) - 1, seedNum |-> SumCodes(seed, 1),
                              j |-> 0, at |-> Len(chars) - 1]]

\* mutant: the exchange without a temporary: pool[i] is lost
shuffleIterationOverwrite(pool, i, rv) ==
    LET j == (rv * (i + 1)) \div Scale
    IN  [j |-> j, pool |-> [pool EXCEPT ![i + 1] = pool[j + 1]]]

\* const j = Math.floor(random() * (i + 1)); [pool[i], pool[j]] = [pool[j], pool[i]]
\* for random() = rv and the 0-based i of the code
shuffleIteration(pool, i, rv) ==
    LET j == (rv * (i + 1)) \div Scale
    IN  [j |-> j, pool |-> Swap(pool, i + 1, j + 1)]

ShuffleStep ==
    /\ codec.kind = "shuffle"
    /\ codec.orig.i > 0
    /\ LET i == codec.orig.i
           free == i > Len(chars) - 1 - MaxFree \/ i <= MaxFree
       IN  \E rv \in {random(codec.orig.seedNum)} \cup (IF free THEN RandomValues ELSE {}) :
               LET it == shuffleIteration(codec.val, i, rv)
               IN  codec' = [codec EXCEPT
                                !.val = it.pool,
                                !.hops = @ + 1,
                                !.orig = [i |-> i - 1, seedNum |-> @.seedNum + 1,
                                          j |-> it.j, at |-> i]]
    /\ UNCHANGED <<cube, engine, sess, calls, chat, conn>>

\* the result: the first 54 entries of pool
ShuffleReturn ==
    /\ codec.kind = "shuffle"
    /\ codec.orig.i = 0
    /\ codec' = [codec EXCEPT !.kind = "charSet", !.val = [k \in 1..54 |-> @[k]]]
    /\ UNCHANGED <<cube, engine, sess, calls, chat, conn>>

NextShuffle ==
    \/ ShuffleStep
    \/ ShuffleReturn

SpecShuffle == InitShuffle /\ [][NextShuffle]_vars

(***************************************************************************)
(* Definitions the properties below are stated with.                       *)
(***************************************************************************)
\* the cells after moveStr has completed on an idle cube
committed(cubies, moveStr) == animateFinish(cubies, moveStr, activeCubies(cubies, moveStr))

\* the output of a session run alone: each move completes before the next is chosen
RECURSIVE soloRun(_, _, _, _, _, _)
soloRun(cubies, kind, data, last, i, table) ==
    IF i > Len(data) THEN <<>>
    ELSE LET after == committed(cubies, getCharMove(last))
             k == toIndex(getSensorValue(after))
             rc == getStepConstant(table, i - 1)
             o == IF kind = "enc" THEN encryptChar(toIndex(data[i]), k, rc)
                  ELSE decryptChar(toIndex(data[i]), k, rc)
         IN  <<o>> \o soloRun(after, kind, data, IF kind = "enc" THEN <<o>> ELSE <<data[i]>>,
                               i + 1, table)

soloOutput(s) ==
    soloRun(sess[s].start, sess[s].kind, sess[s].data, sess[s].iv, 1,
            engine[sess[s].cube].stepConstants)

Lattice == {<<x, y, z>> : x \in {-1, 0, 1}, y \in {-1, 0, 1}, z \in {-1, 0, 1}}

\* the labelled facelets of the cells, as (cell, slot) pairs
labelled(cubies) == {nf \in CubieIds \X (1..6) : cubies[nf[1]].material[nf[2]] # NoChar}

PoolCount == [ch \in Alphabet |-> Cardinality({i \in 1..54 : chars[i] = ch})]

CipherMoves == {movesList[i] : i \in 1..6}

(***************************************************************************)
(* C1 (SpecPair).  Round trip: when the receiver's decryptSequence of the  *)
(* ciphertext delivered by the sender's encryptSequence completes, with    *)
(* the same IV, on a cube initialised from the same seed and with the same *)
(* round-constant table, what it delivers to onComplete is the sender's    *)
(* (alphabet-only) plaintext.                                              *)
(***************************************************************************)
C1_RoundTrip ==
    \A i \in 1..Len(sess[2].delivered) : sess[2].delivered[i] = sess[1].data

C1_Witness ==
    /\ sess[2].delivered # <<>>
    /\ Len(sess[1].data) >= 2
    /\ engine[2].stepConstants # <<>>
    /\ sess[2].delivered[1] # sess[1].delivered[1]

(***************************************************************************)
(* C2 (SpecPair).  Lock-step: at every step index the decrypting session   *)
(* on cube 2 has seen the same move complete, read the same sensor symbol  *)
(* and left its cube in the same state as the encrypting session on cube 1 *)
(* at that step index.                                                     *)
(***************************************************************************)
C2_LockStep ==
    \A i \in 1..Len(sess[2].trace) :
        /\ sess[2].queued[i] = sess[1].queued[i]
        /\ sess[2].trace[i].move = sess[1].trace[i].move
        /\ sess[2].trace[i].k = sess[1].trace[i].k
        /\ sess[2].trace[i].cubies = sess[1].trace[i].cubies

C2_Witness ==
    /\ Len(sess[2].trace) >= 2
    /\ sess[2].trace[1].move # sess[2].trace[2].move
    /\ sess[2].out # sess[2].data

(***************************************************************************)
(* C3 (Spec).  Sessions sharing one cube are serialized: with nothing but  *)
(* sessions acting on the cube, every session that completes is delivered  *)
(* once, with the output it would have produced run alone from the cube    *)
(* state it started on.                                                    *)
(***************************************************************************)
C3_Serialized ==
    calls = 0 =>
        \A s \in Sessions :
            /\ Len(sess[s].delivered) <= 1
            /\ \A i \in 1..Len(sess[s].delivered) : sess[s].delivered[i] = soloOutput(s)

(***************************************************************************)
(* C4 (Spec).  At most one move is in flight: no animateMove is started    *)
(* while an earlier one has not yet run its completion callback.           *)
(***************************************************************************)
C4_OneInFlight == \A c \in Cubes : Len(cube[c].inflight) <= 1

C4_Witness ==
    /\ Len(cube[1].inflight) = 1
    /\ cube[1].isAnimating
    /\ Len(cube[1].animationQueue) >= 2
    /\ cube[1].autoProcess
    /\ sess[1].kind # "none"

(***************************************************************************)
(* C5 (SpecPair).  Step order within a session: the completion the hook of *)
(* step i observes is that of the move queued for step i, the sensor is    *)
(* read on the cells with that move applied to the cells of the step       *)
(* before, and the move of step i+1 is queued only once the output of step *)
(* i has been appended.                                                    *)
(***************************************************************************)
C5_StepOrder ==
    \A s \in Sessions :
        /\ Len(sess[s].queued) <= Len(sess[s].out) + 1
        /\ Len(sess[s].trace) = Len(sess[s].out)
        /\ \A i \in 1..Len(sess[s].trace) :
            /\ sess[s].trace[i].move = sess[s].queued[i]
            /\ sess[s].trace[i].cubies =
                   committed(IF i = 1 THEN sess[s].start ELSE sess[s].trace[i - 1].cubies,
                             sess[s].queued[i])
            /\ sess[s].trace[i].k = getSensorValue(sess[s].trace[i].cubies)

C5_Witness ==
    \E s \in Sessions :
        /\ Len(sess[s].trace) >= 2
        /\ Len(sess[s].queued) = Len(sess[s].trace)
        /\ ~cube[sess[s].cube].autoProcess

(***************************************************************************)
(* C6 (SpecMoves).  Label conservation: every cell carries in every        *)
(* facelet slot the label initCube gave it, and each symbol occurs on the  *)
(* cube as often as in the 54-symbol pool.                                 *)
(***************************************************************************)
C6_LabelConservation ==
    /\ \A n \in CubieIds :
           cube[1].cubies[n].material = InitCubies[cube[1].seedKey][n].material
    /\ LET on == labelled(cube[1].cubies)
       IN  /\ Cardinality(on) = Len(chars)
           /\ \A ch \in Alphabet :
                  Cardinality({nf \in on : cube[1].cubies[nf[1]].material[nf[2]] = ch})
                      = PoolCount[ch]

C6_Witness ==
    /\ calls >= 2
    /\ cube[1].inflight = <<>>
    /\ cube[1].animationQueue = <<>>
    /\ \E n \in CubieIds : cube[1].cubies[n].position # HomeOf(n)
    /\ \E n \in CubieIds : cube[1].cubies[n].position[1] = -1 /\ HomeOf(n)[1] # -1

(***************************************************************************)
(* C7 (SpecMoves).  Position bijection: every cell of cube.cubies is at a  *)
(* lattice point and no two cells are at the same point, also while a move *)
(* is animating and after the cube has been keyed again.                   *)
(***************************************************************************)
C7_PositionBijection ==
    /\ \A n \in CubieIds : cube[1].cubies[n].position \in Lattice
    /\ Cardinality({cube[1].cubies[n].position : n \in CubieIds}) = Cardinality(CubieIds)

C7_Witness ==
    /\ cube[1].inflight # <<>>
    /\ calls >= 2
    /\ \E n \in CubieIds : cube[1].cubies[n].position # HomeOf(n)

(***************************************************************************)
(* C8 (SpecMoves).  Sensor occupant: in every reachable cube state, each   *)
(* of U, U', R, R', F, F' puts at (1,1,1) a cell other than the one that   *)
(* is there before the move.                                               *)
(***************************************************************************)
C8_SensorOccupantChanges ==
    \A move \in CipherMoves :
        /\ sensorCubie(cube[1].cubies) # -1
        /\ sensorCubie(committed(cube[1].cubies, move)) # -1
        /\ sensorCubie(committed(cube[1].cubies, move)) # sensorCubie(cube[1].cubies)

C8_Witness ==
    /\ calls >= 2
    /\ cube[1].inflight = <<>>
    /\ sensorCubie(cube[1].cubies) # 26
    /\ HomeOf(sensorCubie(cube[1].cubies))[2] = -1

(***************************************************************************)
(* C9 (SpecMoves).  Key symbol: in every reachable cube state, each of U,  *)
(* U', R, R', F, F' makes getSensorValue return a symbol other than the    *)
(* one it returns before the move.                                         *)
(***************************************************************************)
C9_KeySymbolChanges ==
    \A move \in CipherMoves :
        getSensorValue(committed(cube[1].cubies, move)) # getSensorValue(cube[1].cubies)

(***************************************************************************)
(* C10 (SpecCodec).  Alphabet closure: fromIndex(toIndex(c)) = c for every *)
(* character of the alphabet, toIndex(fromIndex(i)) = i for every index in *)
(* 0..52, and toIndex of an alphabet character is in 0..52.                *)
(***************************************************************************)
C10_AlphabetClosure ==
    /\ (codec.from = "char" /\ codec.orig \in Alphabet /\ codec.hops % 2 = 0)
           => codec.val = codec.orig
    /\ (codec.from = "char" /\ codec.orig \in Alphabet /\ codec.hops % 2 = 1)
           => codec.val \in 0..52
    /\ (codec.from = "index" /\ codec.hops % 2 = 0) => codec.val = codec.orig
    /\ (codec.from = "index" /\ codec.hops % 2 = 1) => codec.val \in Alphabet

C10_Witness ==
    /\ codec.from = "char"
    /\ codec.orig = Space
    /\ codec.hops = 2
    /\ codec.val = Space

\* the number of characters of text that are in the alphabet
AlphabetCount(text) == Cardinality({i \in 1..Len(text) : text[i] \in Alphabet})

(***************************************************************************)
(* C11 (SpecSolo).  Input filtering and output shape: a session queues one *)
(* move and reads the sensor once per input character that is in the       *)
(* alphabet and for no other character; what it delivers has as many       *)
(* characters as the input has alphabet characters, all of them in the     *)
(* alphabet.                                                               *)
(***************************************************************************)
C11_OneStepPerAlphabetChar ==
    \A s \in Sessions :
        sess[s].kind # "none" =>
            LET n == AlphabetCount(sess[s].raw)
            IN  /\ Len(sess[s].queued) <= n
                /\ Len(sess[s].trace) <= Len(sess[s].queued)
                /\ Len(sess[s].out) = Len(sess[s].trace)
                /\ \A i \in 1..Len(sess[s].delivered) :
                       /\ Len(sess[s].delivered[i]) = n
                       /\ Len(sess[s].queued) = n
                       /\ Len(sess[s].trace) = n
                       /\ \A j \in 1..n : sess[s].delivered[i][j] \in Alphabet

C11_Witness ==
    \E s \in Sessions :
        /\ sess[s].kind = "dec"
        /\ sess[s].delivered # <<>>
        /\ Len(sess[s].raw) = 2
        /\ Len(sess[s].delivered[1]) = 1

(***************************************************************************)
(* C12 (SpecSolo).  Empty input: a call of encryptSequence or              *)
(* decryptSequence whose filtered input is empty delivers "" and leaves    *)
(* the cube (its cells, queue, flags and onMoveComplete) and the engine as *)
(* they were.                                                              *)
(***************************************************************************)
C12_EmptyInput ==
    [][\A s \in Sessions :
          (sess[s].kind = "none" /\ sess'[s].kind # "none" /\ AlphabetCount(sess'[s].raw) = 0)
              => /\ sess'[s].delivered = << <<>> >>
                 /\ sess'[s].queued = <<>>
                 /\ cube' = cube
                 /\ engine' = engine]_vars

C12_Witness ==
    /\ sess[2].kind # "none"
    /\ sess[2].raw = <<49>>
    /\ sess[2].delivered = << <<>> >>
    /\ cube[1].onMoveComplete.kind # "none"

(***************************************************************************)
(* C13 (SpecLive).  Termination: a session that is alone on an             *)
(* auto-processing cube whose animations all finish is eventually done,    *)
(* and onComplete is called once, with the whole output.                   *)
(***************************************************************************)
C13_Terminates ==
    /\ \A s \in Sessions : (sess[s].kind # "none") ~> (Len(sess[s].delivered) = 1)
    /\ [](\A s \in Sessions :
             /\ Len(sess[s].delivered) <= 1
             /\ \A i \in 1..Len(sess[s].delivered) :
                    /\ sess[s].delivered[i] = sess[s].out
                    /\ Len(sess[s].out) = Len(sess[s].data))

C13_Witness ==
    /\ sess[1].delivered # <<>>
    /\ Len(sess[1].data) >= 2
    /\ cube[1].inflight = <<>>

(***************************************************************************)
(* C14 (Spec).  Done is terminal: once a session has delivered its output, *)
(* no later move completion on the cube appends to its output, advances    *)
(* its index or calls its onComplete again.                                *)
(***************************************************************************)
C14_DoneIsTerminal ==
    [][\A s \in Sessions :
          sess[s].delivered # <<>> =>
              /\ sess'[s].out = sess[s].out
              /\ sess'[s].index = sess[s].index
              /\ sess'[s].delivered = sess[s].delivered]_vars

(***************************************************************************)
(* C15 (SpecMoves).  queueMove while a move is in flight is rejected: as   *)
(* long as isAnimating is true no move is added to the queue, so none is   *)
(* stored to be applied later.                                             *)
(***************************************************************************)
C15_RejectedWhileAnimating ==
    [][\A c \in Cubes :
          cube[c].isAnimating =>
              Len(cube'[c].animationQueue) <= Len(cube[c].animationQueue)]_vars

\* the animations in flight on cube c that were started before its last initCube
StaleInFlight(c) == {k \in 1..Len(cube[c].inflight) : cube[c].inflight[k].stale}

(***************************************************************************)
(* C16 (Spec).  initCube resets what is in flight: an animation that was   *)
(* started before an initCube call never completes after it, so neither    *)
(* its callback nor the onMoveComplete hook installed before the call runs *)
(* against the rebuilt cube.                                               *)
(***************************************************************************)
C16_InitCubeResets ==
    [][\A c \in Cubes : Cardinality(StaleInFlight(c)') >= Cardinality(StaleInFlight(c))]_vars

(***************************************************************************)
(* C17 (Spec).  Keying installs the round constants: with the cube keyed   *)
(* from seed S, the constant the engine uses at each cipher step i is the  *)
(* i-th constant generateStepConstants derives from S.                     *)
(***************************************************************************)
C17_KeyedRoundConstants ==
    \A s \in Sessions :
        \A i \in 1..Len(sess[s].trace) :
            i <= 2 =>
                getStepConstant(engine[sess[s].cube].stepConstants, i - 1)
                    = generateStepConstants(cube[sess[s].cube].seedKey, i)[i]

(***************************************************************************)
(* C18 (Spec).  The character "A" selects the move U: a session whose IV   *)
(* is "A" queues U as its first move.                                      *)
(***************************************************************************)
C18_FeedbackASelectsU ==
    \A s \in Sessions :
        (sess[s].iv = <<65>> /\ sess[s].queued # <<>>) => sess[s].queued[1] = "U"

\* cube c is at rest: nothing queued, nothing animating
AtRest(c) ==
    /\ ~cube[c].isAnimating
    /\ cube[c].animationQueue = <<>>
    /\ cube[c].inflight = <<>>

(***************************************************************************)
(* C19 (SpecKeys).  Manual control: each of the keys U, D, L, R, F, B      *)
(* queues its face move, so after one key press, once the cube is at rest  *)
(* again, the cells are not where initCube put them.                       *)
(***************************************************************************)
C19_FaceKeysTurn ==
    (calls = 1 /\ AtRest(1)) => cube[1].cubies # InitCubies[cube[1].seedKey]

(***************************************************************************)
(* SpecCipher: a cube keyed from any seed and turned by the engine's six   *)
(* moves only, each queued on the cube at rest and completed before the    *)
(* next.                                                                   *)
(***************************************************************************)
CipherTurn ==
    \E move \in CipherMoves :
        /\ calls < MaxDepth
        /\ AtRest(1)
        /\ calls' = calls + 1
        /\ Apply(queueMove(World, 1, move))
        /\ UNCHANGED <<codec, chat, conn>>

NextCipher ==
    \/ CipherTurn
    \/ AnimationDone(1)

SpecCipher == InitMoves /\ [][NextCipher]_vars

(***************************************************************************)
(* C20 (SpecCipher).  The sensor never fails under the cipher's moves:     *)
(* whatever moves of U, U', R, R', F, F' have completed since initCube,    *)
(* there is a cell at (1,1,1), one of its labelled facelets points up, and *)
(* getSensorValue returns that label, not "?".                             *)
(***************************************************************************)
C20_SensorNeverFails ==
    LET n == sensorCubie(cube[1].cubies)
    IN  /\ n # -1
        /\ LET best == sensorBest(cube[1].cubies[n].quaternion)
           IN  /\ best.bestDot = 1
               /\ cube[1].cubies[n].material[best.bestIndex] # NoChar
               /\ getSensorValue(cube[1].cubies) = cube[1].cubies[n].material[best.bestIndex]
        /\ getSensorValue(cube[1].cubies) # Unknown
        /\ getSensorValue(cube[1].cubies) \in Alphabet

\* four moves have completed and the cell at the sensor shows a facelet that
\* initCube did not put on top
C20_Witness ==
    /\ calls = 4
    /\ AtRest(1)
    /\ sensorCubie(cube[1].cubies) # -1
    /\ sensorBest(cube[1].cubies[sensorCubie(cube[1].cubies)].quaternion).bestIndex # 3

(***************************************************************************)
(* C22 (SpecPair).  Feedback register: the first move of a session is      *)
(* getCharMove of its IV; every later move of an encrypting session is     *)
(* getCharMove of the ciphertext character it produced one step earlier,   *)
(* and every later move of a decrypting session is getCharMove of the      *)
(* input ciphertext character one position earlier.                        *)
(***************************************************************************)
C22_FeedbackRegister ==
    \A s \in Sessions :
        \A i \in 1..Len(sess[s].queued) :
            sess[s].queued[i] =
                getCharMove(IF i = 1 THEN sess[s].iv
                            ELSE IF sess[s].kind = "enc" THEN <<sess[s].out[i - 1]>>
                            ELSE <<sess[s].data[i - 1]>>)

\* both sessions have queued two moves, and the decrypting one would have
\* queued another had it fed back its plaintext
C22_Witness ==
    /\ Len(sess[1].queued) = 2
    /\ Len(sess[2].queued) = 2
    /\ sess[1].queued[2] # getCharMove(<<sess[1].data[1]>>)
    /\ sess[2].queued[2] # getCharMove(<<sess[2].out[1]>>)

\* stepConstants[i mod stepConstants.length]; 0 for the empty table
RoundConstant(table, i) == IF table = <<>> THEN 0 ELSE table[(i % Len(table)) + 1]

(***************************************************************************)
(* C24 (SpecPair).  Encrypt step arithmetic: the character an encrypting   *)
(* session puts out at step i is fromIndex((P + K + RC) mod 53), with P    *)
(* the index of the i-th filtered input character, K the index of the      *)
(* sensor symbol of the cube after this step's move, and RC the table      *)
(* entry at i mod the table's length.                                      *)
(***************************************************************************)
C24_EncryptStep ==
    \A s \in Sessions :
        sess[s].kind = "enc" =>
            \A i \in 1..Len(sess[s].trace) :
                LET before == IF i = 1 THEN sess[s].start ELSE sess[s].trace[i - 1].cubies
                    after == committed(before, sess[s].queued[i])
                    P == toIndex(sess[s].data[i])
                    K == toIndex(getSensorValue(after))
                    RC == RoundConstant(engine[sess[s].cube].stepConstants, i - 1)
                IN  /\ sess[s].trace[i].cubies = after
                    /\ sess[s].out[i] = fromIndex((P + K + RC) % 53)

C24_Witness ==
    /\ sess[1].kind = "enc"
    /\ Len(sess[1].trace) = 2
    /\ Len(engine[1].stepConstants) = 2
    /\ engine[1].stepConstants[2] # 0
    /\ toIndex(sess[1].data[2]) + toIndex(sess[1].trace[2].k) + engine[1].stepConstants[2] >= 53

C25_DecryptNonNegative ==
    codec.kind = "pVal" =>
        LET d == codec.orig[1] - codec.orig[2] - codec.orig[3]
        IN  /\ codec.val \in 0..52
            /\ codec.val = (jsRem(d, 53) + 53) % 53
            /\ (codec.val - d) % 53 = 0

\* the remainder was negative and had to be brought back
C25_Witness ==
    /\ codec.kind = "pVal"
    /\ codec.orig = <<0, 52, 52>>
    /\ codec.val = 2

(***************************************************************************)
(* C30 (SpecFunctions), as claimed: every entry r of the table             *)
(* generateStepConstants returns satisfies 0 <= r < 52.                    *)
(***************************************************************************)
C30_ConstantsBelow52 ==
    codec.kind = "table" =>
        \A i \in 1..Len(codec.val) : codec.val[i] >= 0 /\ codec.val[i] < 52

(***************************************************************************)
(* C30 (SpecFunctions), amended: the table has the length asked for and    *)
(* every entry r is an integer with 0 <= r <= 52.                          *)
(***************************************************************************)
C30_ConstantsUpTo52 ==
    codec.kind = "table" =>
        /\ Len(codec.val) = codec.orig[2]
        /\ \A i \in 1..Len(codec.val) : codec.val[i] \in 0..52

\* a table with an entry of 52
C30_Witness ==
    /\ codec.kind = "table"
    /\ \E i \in 1..Len(codec.val) : codec.val[i] = 52

(***************************************************************************)
(* SpecTurns: a cube keyed from any seed; after at most MaxScramble moves  *)
(* (any of the twelve generators, or a move string with an unknown face    *)
(* letter) one of the patterns X X', X' X, X X X X is played on it, each   *)
(* move queued when the one before has completed.  codec keeps the pattern *)
(* and the cells the pattern started from.                                 *)
(***************************************************************************)
TurnStrings == Generators \cup {"X"}

Patterns ==
    UNION {{<<f, WithPrime[f]>>, <<WithPrime[f], f>>, <<f, f, f, f>>} : f \in FaceKeys}

Scramble ==
    \E moveStr \in TurnStrings :
        /\ codec.kind = "none"
        /\ calls < MaxScramble
        /\ calls' = calls + 1
        /\ Apply(queueMove(World, 1, moveStr))
        /\ UNCHANGED <<codec, chat, conn>>

StartPattern ==
    \E pattern \in Patterns :
        /\ codec.kind = "none"
        /\ AtRest(1)
        /\ codec' = [NoCodec EXCEPT !.kind = "pattern", !.from = pattern,
                                    !.orig = pattern, !.val = cube[1].cubies]
        /\ UNCHANGED <<cube, engine, sess, calls, chat, conn>>

PatternTurn ==
    /\ codec.kind = "pattern"
    /\ codec.from # <<>>
    /\ AtRest(1)
    /\ Apply(queueMove(World, 1, Head(codec.from)))
    /\ codec' = [codec EXCEPT !.from = Tail(@)]
    /\ UNCHANGED <<calls, chat, conn>>

NextTurns ==
    \/ Scramble
    \/ StartPattern
    \/ PatternTurn
    \/ AnimationDone(1)

SpecTurns == InitMoves /\ [][NextTurns]_vars

\* the cells whose coordinate on the axis of moveStr is the layer value of moveStr
LayerOf(cubies, moveStr) ==
    CASE moveStr \in {"U", "U'"} -> {n \in CubieIds : cubies[n].position[2] = 1}
      [] moveStr \in {"D", "D'"} -> {n \in CubieIds : cubies[n].position[2] = -1}
      [] moveStr \in {"L", "L'"} -> {n \in CubieIds : cubies[n].position[1] = -1}
      [] moveStr \in {"R", "R'"} -> {n \in CubieIds : cubies[n].position[1] = 1}
      [] moveStr \in {"F", "F'"} -> {n \in CubieIds : cubies[n].position[3] = 1}
      [] moveStr \in {"B", "B'"} -> {n \in CubieIds : cubies[n].position[3] = -1}
      [] OTHER -> {}

(***************************************************************************)
(* C26 (SpecTurns).  Move frame condition: the completion of a move        *)
(* changes exactly the cells of the move's layer: nine cells for a face    *)
(* letter U, D, L, R, F, B, each of which gets another orientation and     *)
(* keeps its labels, and no cell for any other move string; every other    *)
(* cell keeps its position and orientation.                                *)
(***************************************************************************)
C26_MoveFrame ==
    [][(cube'[1].inflight # cube[1].inflight /\ calls' = calls /\ codec' = codec) =>
          LET moveStr == cube[1].inflight[1].move
              layer == LayerOf(cube[1].cubies, moveStr)
          IN  /\ {n \in CubieIds : cube'[1].cubies[n] # cube[1].cubies[n]} = layer
              /\ moveStr \in Generators => Cardinality(layer) = 9
              /\ \A n \in layer :
                     /\ cube'[1].cubies[n].quaternion # cube[1].cubies[n].quaternion
                     /\ cube'[1].cubies[n].material = cube[1].cubies[n].material
                     /\ cube'[1].cubies[n].position \in
                            {cube[1].cubies[m].position : m \in layer}]_vars

\* a move with an unknown face letter and then a D' have completed
C26_Witness ==
    /\ codec.kind = "pattern"
    /\ codec.orig = <<"D'", "D">>
    /\ codec.from = <<"D">>
    /\ calls = 1
    /\ codec.val = InitCubies[cube[1].seedKey]
    /\ AtRest(1)
    /\ cube[1].cubies # codec.val

(***************************************************************************)
(* C27 (SpecTurns).  Generator algebra: from every cube state, X then X',  *)
(* X' then X, and X four times, leave every cell with the position and     *)
(* orientation it had, for each of the six faces X.                        *)
(***************************************************************************)
C27_GeneratorAlgebra ==
    (codec.kind = "pattern" /\ codec.from = <<>> /\ AtRest(1)) =>
        cube[1].cubies = codec.val

\* a pattern of four B turns has been completed on a scrambled cube
C27_Witness ==
    /\ codec.kind = "pattern"
    /\ codec.orig = <<"B", "B", "B", "B">>
    /\ codec.from = <<>>
    /\ AtRest(1)
    /\ codec.val # InitCubies[cube[1].seedKey]
    /\ cube[1].cubies = codec.val

\* the cells are where the loops of initCube put them: cell n is the n-th of
\* the enumeration with x outermost and z innermost, unturned
Enumerated(cubies) ==
    /\ \A n \in CubieIds :
           /\ cubies[n].position \in Lattice
           /\ cubies[n].quaternion = Identity
    /\ \A n \in CubieIds, m \in CubieIds :
           n < m =>
               LET p == cubies[n].position
                   q == cubies[m].position
               IN  \/ p[1] < q[1]
                   \/ p[1] = q[1] /\ p[2] < q[2]
                   \/ p[1] = q[1] /\ p[2] = q[2] /\ p[3] < q[3]

\* the labelled facelets that come before facelet f of cell n
LabelledBefore(cubies, n, f) ==
    {nf \in labelled(cubies) : nf[1] < n \/ (nf[1] = n /\ nf[2] < f)}

(***************************************************************************)
(* C28 (SpecMoves).  Label assignment: the cube initCube builds has its 27 *)
(* cells enumerated with x, then y, then z running -1..1; a facelet        *)
(* carries a label exactly when it is on the surface; the labelled         *)
(* facelets, read cell by cell in the order Right, Left, Up, Down, Front,  *)
(* Back, carry the label sequence in order; there are 54 of them, 9 with   *)
(* each of the six directions.                                             *)
(***************************************************************************)
C28_LabelAssignment ==
    LET cubies == cube[1].cubies
    IN  /\ calls = 0 => Enumerated(cubies)
        /\ Enumerated(cubies) =>
               /\ \A n \in CubieIds, f \in 1..6 :
                      (cubies[n].material[f] # NoChar) <=>
                          (cubies[n].position[1] * normals[f][1]
                           + cubies[n].position[2] * normals[f][2]
                           + cubies[n].position[3] * normals[f][3] = 1)
               /\ Cardinality(labelled(cubies)) = 54
               /\ \A f \in 1..6 : Cardinality({n \in CubieIds : cubies[n].material[f] # NoChar}) = 9
               /\ \A nf \in labelled(cubies) :
                      cubies[nf[1]].material[nf[2]] =
                          CharSets[cube[1].seedKey][Cardinality(LabelledBefore(cubies, nf[1], nf[2])) + 1]

\* the cube as rebuilt by initCube("AW") after a move of the cube built first
C28_Witness ==
    /\ calls = 2
    /\ AtRest(1)
    /\ cube[1].seedKey = SeedAW
    /\ Enumerated(cube[1].cubies)
    /\ cube[1].cubies[26].material[3] = 65

(***************************************************************************)
(* C29 (SpecShuffle).  Label permutation: whatever values in [0,1) random  *)
(* returns, every swap index j satisfies 0 <= j <= i, pool stays a         *)
(* rearrangement of the fixed pool (every alphabet symbol once, "A"        *)
(* twice), and the result has length 54.                                   *)
(***************************************************************************)
C29_LabelPermutation ==
    codec.kind \in {"shuffle", "charSet"} =>
        /\ Len(codec.val) = 54
        /\ DOMAIN codec.val = 1..54
        /\ {codec.val[k] : k \in 1..54} = Alphabet
        /\ Cardinality({k \in 1..54 : codec.val[k] = 65}) = 2
        /\ codec.orig.j >= 0
        /\ codec.orig.j <= codec.orig.at

\* a result reached with the largest and the smallest random value among the
\* values returned, and differing from what the seed alone gives
C29_Witness ==
    /\ codec.kind = "charSet"
    /\ codec.val # CharSets[codec.from]
    /\ codec.val # chars
    /\ codec.val[54] = chars[54]
    /\ codec.val[1] # chars[1]

(***************************************************************************)
(* The engine without round constants (the earlier CubeCipherEngine, whose *)
(* hooks compute C = (P + K) mod 53 and P = (C - K) mod 53).  Its helpers  *)
(* toIndex, fromIndex and getCharMove and its processNext are those of the *)
(* engine; only the arithmetic of the two hooks differs.                   *)
(***************************************************************************)
legacyEncryptChar(p, k) == fromIndex((p + k) % 53)

legacyDecryptChar(c, k) ==
    LET pVal == jsRem(c - k, 53)
    IN  fromIndex(IF pVal < 0 THEN pVal + 53 ELSE pVal)

\* a whole legacy session run alone on the cells given: the moves it queues
\* and the text it hands to onComplete
RECURSIVE legacyRun(_, _, _, _, _)
legacyRun(cubies, kind, data, last, i) ==
    IF i > Len(data) THEN [moves |-> <<>>, out |-> <<>>]
    ELSE LET move == getCharMove(last)
             after == committed(cubies, move)
             k == toIndex(getSensorValue(after))
             o == IF kind = "enc" THEN legacyEncryptChar(toIndex(data[i]), k)
                  ELSE legacyDecryptChar(toIndex(data[i]), k)
             rest == legacyRun(after, kind, data, IF kind = "enc" THEN <<o>> ELSE <<data[i]>>, i + 1)
         IN  [moves |-> <<move>> \o rest.moves, out |-> <<o>> \o rest.out]

(***************************************************************************)
(* C31 (SpecPair).  With an empty table of round constants the engine is   *)
(* the legacy cipher: every step's output is the legacy hook's for the     *)
(* same input and sensor symbol, and a completed session has queued the    *)
(* moves and delivered the text of the legacy session on the same cells,   *)
(* input and IV.                                                           *)
(***************************************************************************)
C31_LegacyWithoutConstants ==
    \A s \in Sessions :
        (sess[s].kind # "none" /\ engine[sess[s].cube].stepConstants = <<>>) =>
            LET ss == sess[s]
                legacy == legacyRun(ss.start, ss.kind, ss.data, ss.iv, 1)
            IN  /\ \A i \in 1..Len(ss.out) :
                       ss.out[i] = IF ss.kind = "enc"
                                   THEN legacyEncryptChar(toIndex(ss.data[i]), toIndex(ss.trace[i].k))
                                   ELSE legacyDecryptChar(toIndex(ss.data[i]), toIndex(ss.trace[i].k))
                /\ \A i \in 1..Len(ss.queued) : ss.queued[i] = legacy.moves[i]
                /\ \A i \in 1..Len(ss.delivered) :
                       /\ ss.delivered[i] = legacy.out
                       /\ ss.queued = legacy.moves

\* a two-character message encrypted and decrypted with no table, the
\* ciphertext differing from the plaintext and the IV not being "A"
C31_Witness ==
    /\ engine[1].stepConstants = <<>>
    /\ sess[2].delivered # <<>>
    /\ Len(sess[1].data) = 2
    /\ sess[1].iv = <<66>>
    /\ sess[1].delivered[1] # sess[1].data
    /\ sess[2].delivered[1] = sess[1].data

(***************************************************************************)
(* Definitions for the step-mode property.                                 *)
(***************************************************************************)
IsPrefix(a, b) == Len(a) <= Len(b) /\ \A i \in 1..Len(a) : a[i] = b[i]

\* the moves of the animations in flight, oldest first
InFlightMoves(c) == [i \in 1..Len(cube[c].inflight) |-> cube[c].inflight[i].move]

\* this step starts the head of the queue and nothing else
StartsHead(c) ==
    /\ cube[c].animationQueue # <<>>
    /\ Len(cube'[c].inflight) = Len(cube[c].inflight) + 1
    /\ cube'[c].inflight[Len(cube'[c].inflight)].move = Head(cube[c].animationQueue)
    /\ cube'[c].animationQueue = Tail(cube[c].animationQueue)
    /\ cube'[c].isAnimating

\* the session the installed hook belongs to moves on by one character, and no
\* other session moves
HookAdvances(c) ==
    LET h == cube[c].onMoveComplete
    IN  \A s \in Sessions :
            sess'[s].index = IF h.kind # "none" /\ h.s = s THEN sess[s].index + 1
                             ELSE sess[s].index

(***************************************************************************)
(* C32 (Spec).  Step mode.  While autoProcess is off, a queued move starts *)
(* only in a step() call, which starts exactly the head of the queue; a    *)
(* completion leaves the cube idle, starts nothing and moves the session   *)
(* of the installed hook on by one character; every other call starts      *)
(* nothing and moves no session on.  step() does nothing while a move is   *)
(* animating or the queue is empty.  Switching autoProcess on while idle   *)
(* starts the head of the queue, and from then on each completion starts   *)
(* the head of the queue: the queue is served first in, first out.         *)
(***************************************************************************)
C32_StepMode ==
    [][ /\ (~cube[1].autoProcess /\ ~cube'[1].autoProcess) =>
               \/ /\ InFlightMoves(1)' = InFlightMoves(1)
                  /\ cube'[1].isAnimating = cube[1].isAnimating
                  /\ IsPrefix(cube[1].animationQueue, cube'[1].animationQueue)
                  /\ \A s \in Sessions : sess'[s].index = sess[s].index
               \/ /\ StartsHead(1)
                  /\ sess' = sess
                  /\ Step(1)
               \/ /\ ~cube'[1].isAnimating
                  /\ cube'[1].inflight = <<>>
                  /\ IsPrefix(cube[1].animationQueue, cube'[1].animationQueue)
                  /\ HookAdvances(1)
                  /\ AnimationDone(1)
        /\ (cube[1].isAnimating \/ cube[1].inflight # <<>> \/ cube[1].animationQueue = <<>>) =>
               step(World, 1) = World
        /\ (~cube[1].autoProcess /\ cube'[1].autoProcess
                /\ ~cube[1].isAnimating /\ cube[1].animationQueue # <<>>) =>
               StartsHead(1)
        /\ (cube[1].autoProcess /\ cube[1].animationQueue # <<>>
                /\ calls' = calls /\ cube'[1].inflight # cube[1].inflight /\ AnimationDone(1)) =>
               /\ Len(cube'[1].inflight) = 1
               /\ cube'[1].inflight[1].move = Head(cube[1].animationQueue)
               /\ IsPrefix(Tail(cube[1].animationQueue), cube'[1].animationQueue)
      ]_vars

\* in step mode a session has moved on by one character and its next move
\* waits in the queue, not started
C32_Witness ==
    /\ ~cube[1].autoProcess
    /\ ~cube[1].isAnimating
    /\ cube[1].inflight = <<>>
    /\ sess[1].kind = "enc"
    /\ sess[1].index = 1
    /\ Len(sess[1].data) = 2
    /\ cube[1].animationQueue = <<getCharMove(sess[1].last)>>

(***************************************************************************)
(* SpecLab: the lab page.  One cube; the ENCRYPT/DECRYPT button starts a   *)
(* run at any time, keys are pressed, step mode is switched and stepped,   *)
(* animations complete.  The page's engine has no table of round           *)
(* constants, and the run's hook is the session hook with that table.      *)
(***************************************************************************)
LabTexts == {<<72>>, <<49, 72, 101>>, <<49>>}   \* "H", "1He" and "1"

\* runEncryption and runDecryption, for elDataInput.value = raw and elSecret.value = key
runEncryption(w, s, raw, key) ==
    IF cleanInput(raw) = <<>> THEN w
    ELSE encryptSequence(rebuildCube(w, 1, key), s, 1, raw, <<65>>)

runDecryption(w, s, raw, key) ==
    IF cleanInput(raw) = <<>> THEN w
    ELSE decryptSequence(rebuildCube(w, 1, key), s, 1, raw, <<65>>)

RunEncryption ==
    \E raw \in LabTexts, key \in Seeds :
        /\ FreeSessions # {}
        /\ Apply(runEncryption(World, Least(FreeSessions), raw, key))
        /\ UNCHANGED <<calls, codec, chat, conn>>

RunDecryption ==
    \E raw \in LabTexts, key \in Seeds :
        /\ FreeSessions # {}
        /\ Apply(runDecryption(World, Least(FreeSessions), raw, key))
        /\ UNCHANGED <<calls, codec, chat, conn>>

LabKeyDown ==
    \E key \in {"U", "D"}, shiftKey \in {FALSE} :
        /\ Apply(keydown(World, 1, key, shiftKey))
        /\ Called

NextLab ==
    \/ RunEncryption
    \/ RunDecryption
    \/ LabKeyDown
    \/ SetAutoProcess(1)
    \/ Step(1)
    \/ AnimationDone(1)

SpecLab == Init /\ [][NextLab]_vars

(***************************************************************************)
(* C33 (SpecLab).  Lab runs are reproducible: a run starts on the cube of  *)
(* its key, and the output it ends with is the output of the run alone on  *)
(* that cube, whatever went on before and during the run.                  *)
(***************************************************************************)
C33_Reproducible ==
    \A s \in Sessions :
        sess[s].kind # "none" =>
            /\ sess[s].start \in {InitCubies[key] : key \in Seeds}
            /\ sess[s].iv = <<65>>
            /\ \A i \in 1..Len(sess[s].delivered) : sess[s].delivered[i] = soloOutput(s)

(***************************************************************************)
(* SpecSensed: the arithmetic of the two hooks applied to a character, to  *)
(* what getSensorValue returned (a label or the sentinel "?") and to a     *)
(* round constant: the encrypt hook first, then the decrypt hook on its    *)
(* output with the same sensor value and constant.                         *)
(***************************************************************************)
SensorValues == {Unknown, 65, 114, Space}       \* "?", "A", "r" and " "

InitSensed ==
    /\ cube = [c \in Cubes |-> NewCube(SeedDefault)]
    /\ engine = [c \in Cubes |-> [stepConstants |-> <<>>]]
    /\ sess = [s \in Sessions |-> NoSession]
    /\ calls = 0
    /\ chat = NoChat
    /\ conn = NoConn
    /\ \E pChar \in Alphabet, sensorVal \in SensorValues, rc \in RoundConstants :
           codec = [kind |-> "sensed", from |-> sensorVal, val |-> pChar, hops |-> 0,
                    orig |-> [pChar |-> pChar, rc |-> rc, k |-> -1]]

\* const k = this.toIndex(sensorVal); const p = this.toIndex(pChar); ... fromIndex(cVal)
EncryptHookStep ==
    /\ codec.kind = "sensed"
    /\ LET k == toIndex(codec.from)
       IN  codec' = [codec EXCEPT !.kind = "encrypted", !.hops = @ + 1, !.orig.k = k,
                                  !.val = encryptChar(toIndex(codec.val), k, codec.orig.rc)]
    /\ UNCHANGED <<cube, engine, sess, calls, chat, conn>>

\* const k = this.toIndex(sensorVal); const c = this.toIndex(cChar); ... fromIndex(pVal)
DecryptHookStep ==
    /\ codec.kind = "encrypted"
    /\ LET k == toIndex(codec.from)
       IN  codec' = [codec EXCEPT !.kind = "decrypted", !.hops = @ + 1, !.orig.k = k,
                                  !.val = decryptChar(toIndex(codec.val), k, codec.orig.rc)]
    /\ UNCHANGED <<cube, engine, sess, calls, chat, conn>>

NextSensed ==
    \/ EncryptHookStep
    \/ DecryptHookStep

SpecSensed == InitSensed /\ [][NextSensed]_vars

(***************************************************************************)
(* C40 (SpecSensed).  Sensor fault substitution: when the sensor value is  *)
(* the sentinel "?", both hooks use K = 0: the encrypt hook outputs the    *)
(* alphabet character of index (P + RC) mod 53, and the decrypt hook,      *)
(* given that output, returns the plaintext character; each hook produces  *)
(* a character of the alphabet and goes on to the next step.               *)
(***************************************************************************)
C40_SensorFaultIsZero ==
    (codec.kind \in {"encrypted", "decrypted"} /\ codec.from = Unknown) =>
        /\ codec.orig.k = 0
        /\ codec.val \in Alphabet
        /\ codec.kind = "encrypted" =>
               toIndex(codec.val) = (toIndex(codec.orig.pChar) + codec.orig.rc) % 53
        /\ codec.kind = "decrypted" => codec.val = codec.orig.pChar

\* "He"'s "e" encrypted and decrypted under a failed sensor and a round constant
C40_Witness ==
    /\ codec.kind = "decrypted"
    /\ codec.from = Unknown
    /\ codec.orig.pChar = 101
    /\ codec.orig.rc = 52
    /\ codec.hops = 2

(***************************************************************************)
(* The chat page: one CubeChat per peer over a reliable, ordered           *)
(* connection.  Peer 1 is the host (it received the connection), peer 2    *)
(* the joiner.  A packet is {type, payload}; the model carries the         *)
(* SIGNAL's payload in the field signal and, for a MSG, the session that   *)
(* produced the ciphertext in the field from (which the code does not      *)
(* send).  The operators take and return a world w extended with chat and  *)
(* conn.                                                                   *)
(***************************************************************************)
MaxSends == 2       \* sendMessage calls in SpecChat
MaxKeys == 2        \* setKey calls in SpecSync

ChatSessions == 1..4

ChatWorld == [cube |-> cube, engine |-> engine, sess |-> sess, chat |-> chat, conn |-> conn]

ApplyChat(w) ==
    /\ Apply(w)
    /\ chat' = w.chat
    /\ conn' = w.conn

Other(p) == 3 - p

\* the CubeChat after its constructor and the page's setKey(key) before init();
\* aborted, sent, origin and clean record what has happened, for the properties
NewChat(key) ==
    [connected |-> FALSE, currentKey |-> key, isEncrypting |-> FALSE, isCompromised |-> FALSE,
     locked |-> FALSE, aborted |-> {}, sent |-> {}, origin |-> <<>>, clean |-> FALSE]

SyncPacket(key) == [type |-> "SYNC", payload |-> key, signal |-> "none", from |-> 0]
MsgPacket(ciphertext, s) == [type |-> "MSG", payload |-> ciphertext, signal |-> "none", from |-> s]
SignalPacket(signal) == [type |-> "SIGNAL", payload |-> <<>>, signal |-> signal, from |-> 0]

\* this.conn.send(packet)
send(w, p, packet) == [w EXCEPT !.conn[Other(p)] = Append(@, packet)]

lockInput(w, p, locked) == [w EXCEPT !.chat[p].locked = locked]

sendSyncPacket(w, p) == send(w, p, SyncPacket(w.chat[p].currentKey))

handleSync(w, p, newKey) ==
    rebuildCube([w EXCEPT !.chat[p].currentKey = newKey], p, newKey)

setKey(w, p, key) ==
    LET w1 == rebuildCube([w EXCEPT !.chat[p].currentKey = key], p, key)
    IN  IF w1.chat[p].connected THEN sendSyncPacket(w1, p) ELSE w1

\* the sessions of peer p's sendMessage calls that have not yet called onComplete
Encrypting(w, p) ==
    {s \in ChatSessions : w.sess[s].cube = p /\ w.sess[s].kind = "enc" /\ w.sess[s].delivered = <<>>}

handleCollision(w, p, isInitiator) ==
    LET w1 == [w EXCEPT !.chat[p].isCompromised = TRUE,
                        !.chat[p].isEncrypting = FALSE,
                        !.chat[p].aborted = @ \cup Encrypting(w, p),
                        !.chat[p].clean = TRUE]
        w2 == lockInput(w1, p, FALSE)
        w3 == IF isInitiator THEN send(w2, p, SignalPacket("COLLISION")) ELSE w2
    IN  rebuildCube(w3, p, w3.chat[p].currentKey)

\* the onComplete sendMessage passes to encryptSequence, for session s
sendComplete(w, p, s) ==
    LET w1 == [w EXCEPT !.chat[p].isEncrypting = FALSE]
        fullCiphertext == w.sess[s].delivered[Len(w.sess[s].delivered)]
    IN  IF w1.chat[p].isCompromised
        THEN lockInput(w1, p, FALSE)
        ELSE lockInput(send([w1 EXCEPT !.chat[p].sent = @ \cup {s}], p,
                            MsgPacket(fullCiphertext, s)),
                       p, FALSE)

\* w after the onComplete calls made while a handler of peer p took before to w
completions(before, w, p) ==
    LET done == {s \in ChatSessions :
                    /\ w.sess[s].cube = p
                    /\ w.sess[s].kind = "enc"
                    /\ Len(w.sess[s].delivered) > Len(before.sess[s].delivered)}
    IN  IF done = {} THEN w ELSE sendComplete(w, p, Least(done))

sendMessage(w, p, text, s) ==
    IF ~w.chat[p].connected THEN w
    ELSE LET w1 == lockInput(send(w, p, SignalPacket("START_ENC")), p, TRUE)
             w2 == [w1 EXCEPT !.chat[p].isCompromised = FALSE,
                              !.chat[p].isEncrypting = TRUE,
                              !.chat[p].clean = FALSE]
         IN  completions(w2, encryptSequence(w2, s, p, text, <<65>>), p)

handleIncomingMessage(w, p, data, s) ==
    decryptSequence([w EXCEPT !.chat[p].origin = Append(@, <<s, data.from>>),
                              !.chat[p].clean = FALSE],
                    s, p, data.payload, <<65>>)

\* the connection's 'data' handler
handleData(w, p, data, s) ==
    CASE data.type = "SYNC" -> handleSync(w, p, data.payload)
      [] data.type = "MSG" ->
            IF w.chat[p].isCompromised
            THEN [w EXCEPT !.chat[p].isCompromised = FALSE]
            ELSE handleIncomingMessage(lockInput(w, p, FALSE), p, data, s)
      [] data.type = "SIGNAL" ->
            IF data.signal = "START_ENC"
            THEN IF w.chat[p].isEncrypting
                 THEN handleCollision(w, p, FALSE)
                 ELSE lockInput(w, p, TRUE)
            ELSE IF data.signal = "COLLISION"
                 THEN handleCollision(w, p, FALSE)
                 ELSE w

\* the connection's 'open' handler
handleOpen(w, p, isReceiver) ==
    LET w1 == [w EXCEPT !.chat[p].connected = TRUE]
    IN  IF isReceiver THEN sendSyncPacket(w1, p) ELSE w1

ChatFree == {s \in ChatSessions : sess[s].kind = "none"}

ChatTexts == {<<72>>, <<72, 101>>}      \* "H" and "He"

(***************************************************************************)
(* Actions of the chat page.                                               *)
(***************************************************************************)
\* the send button, which lockInput disables
SendMessage(p) ==
    \E text \in ChatTexts :
        /\ ~chat[p].locked
        /\ calls < MaxSends
        /\ ChatFree # {}
        /\ calls' = calls + 1
        /\ ApplyChat(sendMessage(ChatWorld, p, text, Least(ChatFree)))
        /\ UNCHANGED codec

\* the oldest packet sent to peer p arrives
Deliver(p) ==
    /\ chat[p].connected
    /\ conn[p] # <<>>
    /\ ChatFree # {}
    /\ ApplyChat(handleData([ChatWorld EXCEPT !.conn[p] = Tail(@)], p, Head(conn[p]),
                            Least(ChatFree)))
    /\ UNCHANGED <<calls, codec>>

ChatAnimationDone(p) ==
    \E k \in 1..Len(cube[p].inflight) :
        /\ ApplyChat(completions(ChatWorld, animateMoveDone(ChatWorld, p, k), p))
        /\ UNCHANGED <<calls, codec>>

SetKey(p) ==
    \E key \in Seeds :
        /\ calls < MaxKeys
        /\ calls' = calls + 1
        /\ ApplyChat(setKey(ChatWorld, p, key))
        /\ UNCHANGED codec

Open(p) ==
    /\ ~chat[p].connected
    /\ ApplyChat(handleOpen(ChatWorld, p, p = 1))
    /\ UNCHANGED <<calls, codec>>

(***************************************************************************)
(* SpecChat: two connected peers that hold the same key and have their     *)
(* cubes keyed from it (the SYNC of the connection has been handled) send  *)
(* messages; sends, arrivals and animation completions interleave.         *)
(***************************************************************************)
InitChat ==
    \E key \in Seeds :
        /\ cube = [c \in Cubes |-> NewCube(key)]
        /\ engine = [c \in Cubes |-> [stepConstants |-> <<>>]]
        /\ sess = [s \in ChatSessions |-> NoSession]
        /\ calls = 0
        /\ codec = NoCodec
        /\ chat = [c \in Cubes |-> [NewChat(key) EXCEPT !.connected = TRUE]]
        /\ conn = NoConn

NextChat ==
    \/ \E p \in Cubes : SendMessage(p)
    \/ \E p \in Cubes : Deliver(p)
    \/ \E p \in Cubes : ChatAnimationDone(p)

SpecChat == InitChat /\ [][NextChat]_vars

(***************************************************************************)
(* SpecSync: the two pages from their construction: each has its own key;  *)
(* the connection opens on either side, keys are set, SYNC packets arrive. *)
(***************************************************************************)
InitSync ==
    \E key1 \in Seeds, key2 \in Seeds :
        /\ cube = [c \in Cubes |-> NewCube(IF c = 1 THEN key1 ELSE key2)]
        /\ engine = [c \in Cubes |-> [stepConstants |-> <<>>]]
        /\ sess = [s \in ChatSessions |-> NoSession]
        /\ calls = 0
        /\ codec = NoCodec
        /\ chat = [c \in Cubes |-> NewChat(IF c = 1 THEN key1 ELSE key2)]
        /\ conn = NoConn

NextSync ==
    \/ \E p \in Cubes : Open(p)
    \/ \E p \in Cubes : SetKey(p)
    \/ \E p \in Cubes : Deliver(p)

SpecSync == InitSync /\ [][NextSync]_vars

(***************************************************************************)
(* C34 (SpecChat).  End-to-end delivery: every MSG that was handed to      *)
(* decryptSequence and whose decryption has completed shows the sender's   *)
(* filtered plaintext, and the receiver's cube at the end of the           *)
(* decryption is in the state the sender's cube was in at the end of the   *)
(* encryption.                                                             *)
(***************************************************************************)
C34_Delivery ==
    \A p \in Cubes :
        \A i \in 1..Len(chat[p].origin) :
            LET d == chat[p].origin[i][1]
                e == chat[p].origin[i][2]
            IN  sess[d].delivered # <<>> =>
                    /\ sess[d].delivered[1] = sess[e].data
                    /\ Len(sess[d].trace) = Len(sess[e].trace)
                    /\ sess[d].trace # <<>> =>
                           sess[d].trace[Len(sess[d].trace)].cubies
                               = sess[e].trace[Len(sess[e].trace)].cubies

(***************************************************************************)
(* C35 (SpecSync).  Key agreement: when both peers are connected and no    *)
(* SYNC packet is in flight, the two peers hold the same currentKey and    *)
(* each cube was last initialised from it.                                 *)
(***************************************************************************)
SyncInFlight == \E p \in Cubes : \E i \in 1..Len(conn[p]) : conn[p][i].type = "SYNC"

C35_KeyAgreement ==
    (chat[1].connected /\ chat[2].connected /\ ~SyncInFlight) =>
        /\ chat[1].currentKey = chat[2].currentKey
        /\ \A p \in Cubes : cube[p].seedKey = chat[p].currentKey

(***************************************************************************)
(* C36 (SpecChat).  Collision abort: the ciphertext of a message whose     *)
(* encryptSequence was in progress when handleCollision ran is never sent  *)
(* as a MSG.                                                               *)
(***************************************************************************)
C36_AbortedNeverSent ==
    \A p \in Cubes : chat[p].aborted \cap chat[p].sent = {}

(***************************************************************************)
(* C37 (SpecChat).  Collision notification: when START_ENC arrives at a    *)
(* peer whose isEncrypting is true, that peer sends a COLLISION signal;    *)
(* when a COLLISION signal arrives, the peer sends nothing back.           *)
(***************************************************************************)
Arrives(p, signal) ==
    /\ conn[p] # <<>>
    /\ Head(conn[p]).type = "SIGNAL"
    /\ Head(conn[p]).signal = signal
    /\ conn'[p] = Tail(conn[p])

C37_CollisionNotified ==
    [][\A p \in Cubes :
          /\ (Arrives(p, "START_ENC") /\ chat[p].isEncrypting) =>
                 conn'[Other(p)] = Append(conn[Other(p)], SignalPacket("COLLISION"))
          /\ Arrives(p, "COLLISION") => conn'[Other(p)] = conn[Other(p)]]_vars

(***************************************************************************)
(* C38 (SpecChat).  The input lock is released.  In a state where no       *)
(* packet is in flight, no move is animating or queued and no sendMessage  *)
(* is still encrypting, nothing more happens unless a user sends again; a  *)
(* peer's input that is locked there is never unlocked by the program.     *)
(* The property: in such a state no input is locked.                       *)
(***************************************************************************)
Settled ==
    \A p \in Cubes :
        /\ conn[p] = <<>>
        /\ cube[p].inflight = <<>>
        /\ cube[p].animationQueue = <<>>
        /\ ~cube[p].isAnimating
        /\ ~chat[p].isEncrypting

C38_LockReleased ==
    Settled => \A p \in Cubes : ~chat[p].locked

(***************************************************************************)
(* C39 (SpecChat).  A collision leaves a clean cube: once handleCollision  *)
(* has run on a peer and that peer has started no new message since, when  *)
(* no move is animating or queued on its cube every cell is at its home    *)
(* position and orientation with the labels of currentKey.                 *)
(***************************************************************************)
C39_CleanAfterCollision ==
    \A p \in Cubes :
        (chat[p].clean /\ cube[p].inflight = <<>> /\ cube[p].animationQueue = <<>>) =>
            cube[p].cubies = InitCubies[chat[p].currentKey]
====
